---- MODULE Spec2Model ----
(***************************************************************************)
(* Model of the system bus of TeleVM (sysbus/src/lib.rs): the SysBus       *)
(* registry with its interrupt cursor, the default methods of the          *)
(* SysBusDevOps trait, and the read/write closures that build_region_ops   *)
(* hands to the address space.                                             *)
(***************************************************************************)
EXTENDS Integers, Sequences, FiniteSets, TLC

\* ------------------------------------------------------------------ bounds
MaxIrq == 2          \* free_irqs.0 and free_irqs.1 are drawn from 0..MaxIrq
MaxDevices == 2      \* cap on Len(devices)

\* Size of the root region of the address space (stands for the u64 range).
MemSize == 2

\* i32 limits (min_free_irq, free_irqs and SysRes.irq are i32).
I32Max == 2147483647
I32Min == -I32Max - 1

\* irq + 1 on i32 (lib.rs line 208): wraps in a release build. It is
\* reached only with irq <= free_irqs.1, so it cannot overflow while the
\* range ends below i32::MAX (the program's IRQ_MAX is 1024).
Inc32(x) == IF x = I32Max THEN I32Min ELSE x + 1

\* Result<T>: Ok(v), Ok(()) and Err(e); Option<T>: <<>> is None, <<v>> is Some(v).
Ok(v) == [ok |-> TRUE, val |-> v]
OkUnit == [ok |-> TRUE]
Err(e) == [ok |-> FALSE, err |-> e]
None == <<>>
Some(v) == <<v>>

\* ----------------------------------------------------------------- devices
\* Four device implementations, one per combination of the two optional
\* trait methods a device may override.
Devs == {"plain", "evt", "res", "evt_res"}

\* interrupt_evt(): Some(handle) for the devices that override it, else None.
interrupt_evt(d) == IF d \in {"evt", "evt_res"} THEN Some(d) ELSE None

\* Whether the device overrides get_sys_resource() to expose its SysRes.
HasSysRes(d) == d \in {"res", "evt_res"}

\* SysRes::default()
SysResDefault == [region_base |-> 0, region_size |-> 0, irq |-> -1]

Threads == {1, 2}
Free == 0
Kinds == {"read", "write"}
Bases == 0..(MemSize - 1)
Sizes == 1..MemSize
\* The (region_base, region_size) pairs machine construction passes around.
Ranges == Bases \X Sizes
\* The pairs it passes to set_sys_resource.
ResRanges == {<<0, 1>>, <<1, 2>>}
\* The devices it attaches: one with and one without an interrupt handle.
AttachDevs == {"evt", "res"}

VARIABLES
    free_irqs,      \* SysBus.free_irqs   <<lo, hi>>
    min_free_irq,   \* SysBus.min_free_irq
    mmio_region,    \* SysBus.mmio_region <<lo, hi>>
    min_free_base,  \* SysBus.min_free_base
    devices,        \* SysBus.devices, a sequence of device handles
    sys_mem,        \* subregions of SysBus.sys_mem.root(): a set of regions
    sys_res,        \* the SysRes field of each device (exposed only by HasSysRes devices)
    last,           \* the last construction call and what it returned
    irq_log,        \* results of the set_irq calls made by devices with a handle
    owner,          \* for each attached base, the device attach_device was given
    irqfds,         \* <<handle, irq>> pairs registered with the acceleration layer
    mutex,          \* Mutex of each device: Free or the thread holding it
    pc,             \* where each vCPU thread is inside a region closure
    req,            \* the arguments the address space passed to the closure
    seen,           \* the calls each dispatch made into device methods
    accepted,       \* what the device method returned to the closure
    result          \* what the closure returned to the address space

busVars == <<free_irqs, min_free_irq, mmio_region, min_free_base, devices>>
buildVars == <<busVars, sys_mem, sys_res, last, irq_log, owner, irqfds>>
threadVars == <<mutex, pc, req, seen, accepted, result>>
vars == <<buildVars, threadVars>>

NoReq == [closure |-> [cloned_dev |-> "none"], kind |-> "none",
          data |-> 0, addr |-> 0, offset |-> 0]
NoCall == [op |-> "new", dev |-> "none", ret |-> OkUnit]

\* SysBus::new starting the base cursor at the end of the MMIO range.
new_base_at_end(irqs, mmio) ==
    /\ free_irqs = irqs
    /\ min_free_irq = irqs[1]
    /\ mmio_region = mmio
    /\ min_free_base = mmio[2]
    /\ devices = <<>>
    /\ sys_mem = {}

\* SysBus::new(sys_mem, free_irqs, mmio_region)
new(irqs, mmio) ==
    /\ free_irqs = irqs
    /\ min_free_irq = irqs[1]
    /\ mmio_region = mmio
    /\ min_free_base = mmio[1]
    /\ devices = <<>>
    /\ sys_mem = {}

\* The machine right after SysBus::new(sys_mem, irqs, mmio): no device is
\* attached, every device holds its default SysRes, no vCPU runs.
Constructed(irqs, mmio) ==
    /\ new(irqs, mmio)
    /\ sys_res = [d \in Devs |-> SysResDefault]
    /\ last = NoCall
    /\ irq_log = <<>>
    /\ owner = [b \in Bases |-> "none"]
    /\ irqfds = {}
    /\ mutex = [d \in Devs |-> Free]
    /\ pc = [t \in Threads |-> "idle"]
    /\ req = [t \in Threads |-> NoReq]
    /\ seen = [t \in Threads |-> <<>>]
    /\ accepted = [t \in Threads |-> None]
    /\ result = [t \in Threads |-> None]

Init ==
    \E l \in 0..MaxIrq, h \in 0..MaxIrq :
        Constructed(<<l, h>>, <<MemSize - 1, MemSize>>)

\* One mutex shared by every device of the bus.
MutexOfBus(d) == "plain"

\* The Mutex a device handle Arc<Mutex<T>> carries: one per device.
MutexOf(d) == d

\* ------------------------------------------------- SysBusDevOps defaults
\* set_irq with the cursor advanced before the handle is looked at.
set_irq_advance_first(d, cursor, irqs) ==
    IF cursor > irqs[2]
    THEN [ret |-> Err("IRQ number exhausted."), min_free_irq |-> cursor]
    ELSE IF interrupt_evt(d) = None
         THEN [ret |-> Ok(-1), min_free_irq |-> Inc32(cursor)]
         ELSE [ret |-> Ok(cursor), min_free_irq |-> Inc32(cursor)]

\* set_irq returning the sentinel for a handle-less device but still
\* reserving a number for it.
set_irq_reserve_for_none(d, cursor, irqs) ==
    IF cursor > irqs[2]
    THEN [ret |-> Err("IRQ number exhausted."), min_free_irq |-> cursor]
    ELSE [ret |-> IF interrupt_evt(d) = None THEN Ok(-1) ELSE Ok(cursor),
          min_free_irq |-> Inc32(cursor)]

\* set_irq looking at the handle before the exhaustion check.
set_irq_handle_first(d, cursor, irqs) ==
    IF interrupt_evt(d) = None
    THEN [ret |-> Ok(-1), min_free_irq |-> cursor]
    ELSE IF cursor > irqs[2]
         THEN [ret |-> Err("IRQ number exhausted."), min_free_irq |-> cursor]
         ELSE [ret |-> Ok(cursor), min_free_irq |-> Inc32(cursor)]

\* set_irq with the exhaustion check off by one.
set_irq_off_by_one(d, cursor, irqs) ==
    IF cursor > irqs[2] + 1
    THEN [ret |-> Err("IRQ number exhausted."), min_free_irq |-> cursor]
    ELSE IF interrupt_evt(d) = None
         THEN [ret |-> Ok(-1), min_free_irq |-> cursor]
         ELSE [ret |-> Ok(cursor), min_free_irq |-> Inc32(cursor)]

\* set_irq handing out the cursor's value without moving the cursor.
set_irq_no_advance(d, cursor, irqs) ==
    IF cursor > irqs[2]
    THEN [ret |-> Err("IRQ number exhausted."), min_free_irq |-> cursor]
    ELSE IF interrupt_evt(d) = None
         THEN [ret |-> Ok(-1), min_free_irq |-> cursor]
         ELSE [ret |-> Ok(cursor), min_free_irq |-> cursor]

\* The default set_irq: the value it returns and the cursor it leaves.
set_irq(d, cursor, irqs) ==
    LET irq == cursor IN
    IF irq > irqs[2]
    THEN [ret |-> Err("IRQ number exhausted."), min_free_irq |-> cursor]
    ELSE IF interrupt_evt(d) = None
         THEN [ret |-> Ok(-1), min_free_irq |-> cursor]
         ELSE [ret |-> Ok(irq), min_free_irq |-> Inc32(irq)]

\* The registrations the acceleration layer holds after set_irq: the call
\* KVM_FDS.load().register_irqfd(evt, irq as u32)? of line 207 is commented
\* out, so set_irq registers nothing and no registration can fail.
set_irq_irqfds(d, cursor, irqs, fds) == fds

\* get_sys_resource(): Some(descriptor) of the device, or None.
get_sys_resource(d, res) == IF HasSysRes(d) THEN Some(res[d]) ELSE None

\* set_sys_resource storing the base as the size and the size as the base.
set_sys_resource_swapped(d, cursor, irqs, res, region_base, region_size) ==
    LET r == set_irq(d, cursor, irqs) IN
    IF ~r.ret.ok
    THEN [ret |-> r.ret, min_free_irq |-> r.min_free_irq, sys_res |-> res]
    ELSE IF get_sys_resource(d, res) # None
         THEN [ret |-> OkUnit, min_free_irq |-> r.min_free_irq,
               sys_res |-> [res EXCEPT ![d] = [region_base |-> region_size,
                                               region_size |-> region_base,
                                               irq |-> r.ret.val]]]
         ELSE [ret |-> Err("Failed to get sys resource."),
               min_free_irq |-> r.min_free_irq, sys_res |-> res]

\* set_sys_resource filling in the base and the size before it asks for the
\* interrupt number.
set_sys_resource_write_first(d, cursor, irqs, res, region_base, region_size) ==
    LET r == set_irq(d, cursor, irqs)
        early == IF get_sys_resource(d, res) # None
                 THEN [res EXCEPT ![d].region_base = region_base,
                                  ![d].region_size = region_size]
                 ELSE res
    IN
    IF ~r.ret.ok
    THEN [ret |-> r.ret, min_free_irq |-> r.min_free_irq, sys_res |-> early]
    ELSE IF get_sys_resource(d, res) # None
         THEN [ret |-> OkUnit, min_free_irq |-> r.min_free_irq,
               sys_res |-> [early EXCEPT ![d].irq = r.ret.val]]
         ELSE [ret |-> Err("Failed to get sys resource."),
               min_free_irq |-> r.min_free_irq, sys_res |-> res]

\* The default set_sys_resource: its result, the cursor and the descriptors.
set_sys_resource(d, cursor, irqs, res, region_base, region_size) ==
    LET r == set_irq(d, cursor, irqs) IN
    IF ~r.ret.ok
    THEN [ret |-> r.ret, min_free_irq |-> r.min_free_irq, sys_res |-> res]
    ELSE IF get_sys_resource(d, res) # None
         THEN [ret |-> OkUnit, min_free_irq |-> r.min_free_irq,
               sys_res |-> [res EXCEPT ![d] = [region_base |-> region_base,
                                               region_size |-> region_size,
                                               irq |-> r.ret.val]]]
         ELSE [ret |-> Err("Failed to get sys resource."), min_free_irq |-> r.min_free_irq, sys_res |-> res]

\* The log of what set_irq returned to devices with a handle, kept up to
\* and including the first refusal.
Logged(d, log, ret) ==
    IF interrupt_evt(d) # None /\ (log = <<>> \/ log[Len(log)].ok)
    THEN Append(log, ret)
    ELSE log

\* A device calls the default set_irq on the bus.
call_set_irq(d) ==
    /\ mutex[MutexOf(d)] = Free
    /\ LET r == set_irq(d, min_free_irq, free_irqs) IN
        /\ min_free_irq' = r.min_free_irq
        /\ last' = [op |-> "set_irq", dev |-> d, ret |-> r.ret]
        /\ irq_log' = Logged(d, irq_log, r.ret)
    /\ irqfds' = set_irq_irqfds(d, min_free_irq, free_irqs, irqfds)
    /\ UNCHANGED <<free_irqs, mmio_region, min_free_base, devices, sys_mem, sys_res,
                   owner>>
    /\ UNCHANGED threadVars

\* A device calls the default set_sys_resource on the bus.
call_set_sys_resource(d, region_base, region_size) ==
    /\ mutex[MutexOf(d)] = Free
    /\ LET r == set_sys_resource(d, min_free_irq, free_irqs, sys_res,
                                 region_base, region_size) IN
        /\ min_free_irq' = r.min_free_irq
        /\ sys_res' = r.sys_res
        /\ last' = [op |-> "set_sys_resource", dev |-> d, ret |-> r.ret]
        /\ irq_log' = Logged(d, irq_log, set_irq(d, min_free_irq, free_irqs).ret)
    /\ irqfds' = set_irq_irqfds(d, min_free_irq, free_irqs, irqfds)
    /\ UNCHANGED <<free_irqs, mmio_region, min_free_base, devices, sys_mem, owner>>
    /\ UNCHANGED threadVars

\* ------------------------------------------------------------------ SysBus
\* build_region_ops(dev): the two closures, each owning a clone of the handle.
build_region_ops(d) ==
    [read |-> [cloned_dev |-> d], write |-> [cloned_dev |-> d]]

\* Region::init_io_region(region_size, region_ops)
init_io_region(size, ops) == [size |-> size, ops |-> ops]

\* Two address ranges [b1, b1+s1) and [b2, b2+s2) intersect.
Overlaps(b1, s1, b2, s2) == b1 < b2 + s2 /\ b2 < b1 + s1

\* Region::add_subregion(region, offset) on the root of the address space:
\* rejects a range that leaves the root or overlaps a subregion.
add_subregion(mem, region, offset) ==
    IF \/ offset + region.size > MemSize
       \/ \E r \in mem : Overlaps(offset, region.size, r.base, r.size)
    THEN [ret |-> Err("add_subregion"), mem |-> mem]
    ELSE [ret |-> OkUnit,
          mem |-> mem \cup {[base |-> offset, size |-> region.size, ops |-> region.ops]}]

\* attach_device inserting the handle at the front of the sequence.
attach_device_push_front(d, devs, mem, region_base, region_size) ==
    LET added == add_subregion(mem, init_io_region(region_size, build_region_ops(d)),
                               region_base)
    IN  IF ~added.ret.ok
        THEN [ret |-> [ok |-> FALSE,
                       err |-> "Failed to register region in memory space",
                       offset |-> region_base, size |-> region_size],
              devices |-> devs, sys_mem |-> added.mem]
        ELSE [ret |-> OkUnit, devices |-> <<d>> \o devs, sys_mem |-> added.mem]

\* attach_device recording the handle before the region is inserted.
attach_device_push_early(d, devs, mem, region_base, region_size) ==
    LET added == add_subregion(mem, init_io_region(region_size, build_region_ops(d)),
                               region_base)
    IN  IF ~added.ret.ok
        THEN [ret |-> [ok |-> FALSE,
                       err |-> "Failed to register region in memory space",
                       offset |-> region_base, size |-> region_size],
              devices |-> Append(devs, d), sys_mem |-> added.mem]
        ELSE [ret |-> OkUnit, devices |-> Append(devs, d), sys_mem |-> added.mem]

\* SysBus::attach_device(dev, region_base, region_size): its result, the
\* device sequence and the address space it leaves.
attach_device(d, devs, mem, region_base, region_size) ==
    LET region_ops == build_region_ops(d)
        region == init_io_region(region_size, region_ops)
        added == add_subregion(mem, region, region_base)
    IN  IF ~added.ret.ok
        THEN [ret |-> [ok |-> FALSE,
                       err |-> "Failed to register region in memory space",
                       offset |-> region_base, size |-> region_size],
              devices |-> devs, sys_mem |-> added.mem]
        ELSE [ret |-> OkUnit, devices |-> Append(devs, d), sys_mem |-> added.mem]

\* attach_dynamic_device skipping a device the registry already holds.
attach_dynamic_device_once(d, devs) ==
    [ret |-> OkUnit,
     devices |-> IF \E i \in 1..Len(devs) : devs[i] = d THEN devs ELSE Append(devs, d)]

\* attach_dynamic_device putting the device in front of the registry.
attach_dynamic_device_front(d, devs) == [ret |-> OkUnit, devices |-> <<d>> \o devs]

\* SysBus::attach_dynamic_device(dev)
attach_dynamic_device(d, devs) == [ret |-> OkUnit, devices |-> Append(devs, d)]

\* attach_device running the device's set_irq as part of the attachment.
attach_device_allocates(d, cursor, irqs) == set_irq(d, cursor, irqs).min_free_irq

\* The interrupt cursor attach_device leaves: lines 96-127 make no call to
\* set_irq or set_sys_resource and never write min_free_irq.
attach_device_cursor(d, cursor, irqs) == cursor

\* Machine construction calls attach_device; the call locks the device
\* (line 98) for its duration.
call_attach_device(d, region_base, region_size) ==
    /\ mutex[MutexOf(d)] = Free
    /\ Len(devices) < MaxDevices
    /\ LET r == attach_device(d, devices, sys_mem, region_base, region_size) IN
        /\ devices' = r.devices
        /\ sys_mem' = r.sys_mem
        /\ last' = [op |-> "attach_device", dev |-> d, ret |-> r.ret]
        /\ owner' = IF r.ret.ok THEN [owner EXCEPT ![region_base] = d] ELSE owner
    /\ min_free_irq' = attach_device_cursor(d, min_free_irq, free_irqs)
    /\ UNCHANGED <<free_irqs, mmio_region, min_free_base, sys_res, irq_log, irqfds>>
    /\ UNCHANGED threadVars

\* Machine construction calls attach_dynamic_device.
call_attach_dynamic_device(d) ==
    /\ Len(devices) < MaxDevices
    /\ LET r == attach_dynamic_device(d, devices) IN
        /\ devices' = r.devices
        /\ last' = [op |-> "attach_dynamic_device", dev |-> d, ret |-> r.ret]
    /\ UNCHANGED <<free_irqs, min_free_irq, mmio_region, min_free_base, sys_mem,
                   sys_res, irq_log, owner, irqfds>>
    /\ UNCHANGED threadVars

\* ------------------------------------------------------ region closures
\* The call read_ops makes once it holds the lock (line 76).
read_ops(cloned_dev, data, addr, offset) ==
    [dev |-> cloned_dev, method |-> "read", data |-> data, base |-> addr,
     offset |-> offset]

\* The call write_ops makes once it holds the lock (line 81).
write_ops(cloned_dev, data, addr, offset) ==
    [dev |-> cloned_dev, method |-> "write", data |-> data, base |-> addr,
     offset |-> offset]

\* A closure that reports every access as accepted.
closure_return_true(dev_returned) == TRUE

\* The value a closure returns, given what the device method returned.
closure_return(dev_returned) == dev_returned

\* The lock dropped before the device method is entered.
guard_dropped_before_call(m, d) == [m EXCEPT ![MutexOf(d)] = Free]

\* The MutexGuard is a temporary of the closure's tail expression: it lives
\* across the device call, so entering the method leaves the mutex held.
guard_during_call(m, d) == m

\* The address space routes an access of a vCPU thread to a subregion and
\* invokes the region's read or write closure on the thread's buffer (data
\* names the buffer).
region_access(t, r, kind, offset, data) ==
    /\ pc[t] \in {"idle", "done"}
    /\ r \in sys_mem
    /\ offset \in 0..(r.size - 1)
    /\ req' = [req EXCEPT ![t] = [closure |-> r.ops[kind], kind |-> kind,
                                  data |-> data, addr |-> r.base, offset |-> offset]]
    /\ seen' = [seen EXCEPT ![t] = <<>>]
    /\ accepted' = [accepted EXCEPT ![t] = None]
    /\ result' = [result EXCEPT ![t] = None]
    /\ pc' = [pc EXCEPT ![t] = "closure"]
    /\ UNCHANGED <<buildVars, mutex>>

\* cloned_dev.lock().unwrap()
lock(t) ==
    /\ pc[t] = "closure"
    /\ mutex[MutexOf(req[t].closure.cloned_dev)] = Free
    /\ mutex' = [mutex EXCEPT ![MutexOf(req[t].closure.cloned_dev)] = t]
    /\ pc' = [pc EXCEPT ![t] = "locked"]
    /\ UNCHANGED <<buildVars, req, seen, accepted, result>>

\* .read(data, addr, offset) / .write(data, addr, offset): the device method
\* is entered.
dev_call(t) ==
    /\ pc[t] = "locked"
    /\ LET q == req[t]
           call == IF q.kind = "read"
                   THEN read_ops(q.closure.cloned_dev, q.data, q.addr, q.offset)
                   ELSE write_ops(q.closure.cloned_dev, q.data, q.addr, q.offset)
       IN  seen' = [seen EXCEPT ![t] = Append(@, call)]
    /\ mutex' = guard_during_call(mutex, req[t].closure.cloned_dev)
    /\ pc' = [pc EXCEPT ![t] = "in_dev"]
    /\ UNCHANGED <<buildVars, req, accepted, result>>

\* The device method returns whether it accepted the access.
dev_return(t, b) ==
    /\ pc[t] = "in_dev"
    /\ accepted' = [accepted EXCEPT ![t] = Some(b)]
    /\ pc' = [pc EXCEPT ![t] = "returned"]
    /\ UNCHANGED <<buildVars, mutex, req, seen, result>>

\* The MutexGuard temporary is dropped and the closure returns.
unlock(t) ==
    /\ pc[t] = "returned"
    /\ mutex' = [mutex EXCEPT ![MutexOf(req[t].closure.cloned_dev)] = Free]
    /\ result' = [result EXCEPT ![t] = Some(closure_return(accepted[t][1]))]
    /\ pc' = [pc EXCEPT ![t] = "done"]
    /\ UNCHANGED <<buildVars, req, seen, accepted>>

Next ==
    \/ \E d \in Devs : call_set_irq(d)
    \/ \E d \in Devs, r \in ResRanges : call_set_sys_resource(d, r[1], r[2])
    \/ \E d \in AttachDevs, r \in Ranges : call_attach_device(d, r[1], r[2])
    \/ \E d \in AttachDevs : call_attach_dynamic_device(d)

Spec == Init /\ [][Next]_vars

\* ==================================================================
\* Properties of the construction calls (checked under Spec)
\* ==================================================================
lo == free_irqs[1]
hi == free_irqs[2]
Exhausted == Err("IRQ number exhausted.")
NoHandleDevs == {d \in Devs : interrupt_evt(d) = None}
HandleDevs == Devs \ NoHandleDevs

\* The address space accepts a region at (b, z): it stays inside the root
\* and meets no region attached before.
Accepts(b, z) ==
    /\ b + z <= MemSize
    /\ \A r \in sys_mem : ~Overlaps(b, z, r.base, r.size)

\* C1: on a fresh bus with range [lo, hi], the k-th default set_irq call made
\* by a device with an interrupt handle returns exactly lo+k-1 whenever
\* lo+k-1 <= hi, however many calls by handle-less devices are interleaved.
C1_SequentialIrqs ==
    \A k \in 1..Len(irq_log) :
        lo + k - 1 <= hi => irq_log[k] = Ok(lo + k - 1)

\* Two numbers were handed out in order and a handle-less device was served
\* the sentinel after them.
C1_Witness ==
    /\ Len(irq_log) = 2
    /\ irq_log = <<Ok(lo), Ok(lo + 1)>>
    /\ last.op = "set_irq" /\ last.dev \in NoHandleDevs /\ last.ret = Ok(-1)

\* C2: while min_free_irq <= hi, a default set_irq call by a device without
\* an interrupt handle returns -1 and changes no field of the SysBus.
C2_NoHandleNoAdvance ==
    [][(/\ last'.op = "set_irq" /\ last'.dev \in NoHandleDevs
        /\ call_set_irq(last'.dev) /\ min_free_irq <= hi)
           => (last'.ret = Ok(-1) /\ UNCHANGED <<busVars, sys_mem>>)]_vars

\* A handle-less device got -1 on a bus whose cursor had already moved.
C2_Witness ==
    /\ last.op = "set_irq" /\ last.dev \in NoHandleDevs /\ last.ret = Ok(-1)
    /\ lo < min_free_irq /\ min_free_irq <= hi

\* C3: once min_free_irq > hi, every default set_irq call (alone or inside
\* set_sys_resource, by a device with or without a handle) fails with
\* "IRQ number exhausted." and the cursor stays above hi for ever.
C3_ExhaustionPermanent ==
    [][min_free_irq > hi =>
          /\ min_free_irq' > hi'
          /\ (last'.op = "set_irq" /\ call_set_irq(last'.dev))
                 => last'.ret = Exhausted
          /\ (/\ last'.op = "set_sys_resource"
              /\ \E r \in ResRanges : call_set_sys_resource(last'.dev, r[1], r[2]))
                 => last'.ret = Exhausted]_vars

\* A non-empty range was used up and a handle-less device was then refused.
C3_Witness ==
    /\ lo <= hi /\ min_free_irq > hi
    /\ last.op = "set_irq" /\ last.dev \in NoHandleDevs /\ last.ret = Exhausted

\* C4: the default set_sys_resource on a device without a resource
\* descriptor fails with the missing-resource error and changes neither the
\* bus (cursor, devices) nor any device; stated for a bus that still has
\* free interrupt numbers.
C4_NoPartialMutation ==
    [][(/\ last'.op = "set_sys_resource" /\ ~HasSysRes(last'.dev)
        /\ \E r \in ResRanges : call_set_sys_resource(last'.dev, r[1], r[2])
        /\ min_free_irq <= hi)
           => /\ last'.ret = Err("Failed to get sys resource.")
              /\ UNCHANGED <<busVars, sys_mem, sys_res>>]_vars

\* C5: an attach_device call whose range the address space accepts returns
\* Ok and appends exactly the handle it was given at the end of devices, so
\* n such calls leave n devices in call order.
C5_AttachAppends ==
    [][last'.op = "attach_device" =>
          \A r \in Ranges :
              (call_attach_device(last'.dev, r[1], r[2]) /\ Accepts(r[1], r[2]))
                  => /\ last'.ret = OkUnit
                     /\ devices' = Append(devices, last'.dev)]_vars

\* Two different devices were attached one after the other.
C5_Witness ==
    /\ last.op = "attach_device" /\ last.ret = OkUnit
    /\ Len(devices) = 2 /\ devices[1] # devices[2] /\ devices[2] = last.dev
    /\ Cardinality(sys_mem) = 2

\* C6: an attach_device call whose range the address space rejects returns
\* an error carrying the base and the size, and leaves devices unchanged.
C6_RejectedAttach ==
    [][last'.op = "attach_device" =>
          \A r \in Ranges :
              (call_attach_device(last'.dev, r[1], r[2]) /\ ~Accepts(r[1], r[2]))
                  => /\ ~last'.ret.ok
                     /\ last'.ret.offset = r[1] /\ last'.ret.size = r[2]
                     /\ devices' = devices]_vars

\* An attach was refused because its range overlaps an attached region.
C6_Witness ==
    /\ last.op = "attach_device" /\ ~last.ret.ok
    /\ last.ret.offset + last.ret.size <= MemSize
    /\ Len(devices) = 1 /\ Cardinality(sys_mem) = 1

\* C10: on a bus built with lo <= hi the cursor stays within [lo, hi+1], and
\* no call ever lowers it or raises it by more than one.
C10_CursorBounds ==
    /\ [](lo <= hi => (lo <= min_free_irq /\ min_free_irq <= hi + 1))
    /\ [][min_free_irq <= min_free_irq' /\ min_free_irq' <= min_free_irq + 1]_vars

\* The cursor reached hi+1 on a bus that also has devices attached.
C10_Witness ==
    /\ lo < hi /\ min_free_irq = hi + 1
    /\ Len(devices) >= 1

\* C11: when the default set_sys_resource(bus, region_base, region_size)
\* returns Ok on a device with a descriptor, the descriptor holds that base,
\* that size and the irq its set_irq call returned: the number the cursor
\* held for a device with an interrupt handle, -1 for one without.
C11_DescriptorFilled ==
    [][(last'.op = "set_sys_resource" /\ last'.ret.ok /\ HasSysRes(last'.dev)) =>
          \A r \in ResRanges :
              call_set_sys_resource(last'.dev, r[1], r[2])
                  => sys_res'[last'.dev] =
                         [region_base |-> r[1], region_size |-> r[2],
                          irq |-> IF last'.dev \in NoHandleDevs
                                  THEN -1 ELSE min_free_irq]]_vars

\* A device with a handle holds the second number of the range and the range
\* (1, 2); the device without a handle holds -1 and the range (0, 1).
C11_Witness ==
    /\ last.op = "set_sys_resource" /\ last.ret.ok /\ last.dev = "evt_res"
    /\ sys_res["evt_res"] = [region_base |-> 1, region_size |-> 2, irq |-> lo + 1]
    /\ sys_res["res"] = [region_base |-> 0, region_size |-> 1, irq |-> -1]

\* C12 as stated: a successful attach_device of a device with an interrupt
\* handle, on a bus with free numbers, assigns the device the number the
\* cursor held and advances min_free_irq by one.
C12_AttachAllocatesIrq ==
    [][(/\ last'.op = "attach_device" /\ last'.ret.ok /\ last'.dev \in HandleDevs
        /\ \E r \in Ranges : call_attach_device(last'.dev, r[1], r[2])
        /\ min_free_irq <= hi)
           => /\ min_free_irq' = min_free_irq + 1
              /\ irq_log' = Append(irq_log, Ok(min_free_irq))]_vars

\* C12 amended: attach_device allocates no interrupt. A successful
\* attach_device, also of a device with an interrupt handle, leaves
\* min_free_irq, the numbers handed out and every descriptor unchanged; the
\* interrupt is allocated by a separate set_irq / set_sys_resource call.
C12_AttachLeavesCursor ==
    [][(/\ last'.op = "attach_device" /\ last'.ret.ok
        /\ \E r \in Ranges : call_attach_device(last'.dev, r[1], r[2]))
           => UNCHANGED <<min_free_irq, irq_log, sys_res>>]_vars

\* A device with a handle was attached on a bus with free numbers and the
\* cursor still is at the start of the range.
C12_Witness ==
    /\ last.op = "attach_device" /\ last.ret.ok /\ last.dev \in HandleDevs
    /\ lo <= hi /\ min_free_irq = lo /\ irq_log = <<>>
    /\ Len(devices) = 1

\* C13: attach_dynamic_device returns Ok and appends exactly the given device
\* at the end of devices, whatever the registry holds; it inserts no region
\* and allocates no interrupt, and leaves min_free_irq, free_irqs,
\* mmio_region, min_free_base and every resource descriptor unchanged.
C13_DynamicAppendOnly ==
    [][(last'.op = "attach_dynamic_device" /\ call_attach_dynamic_device(last'.dev))
           => /\ last'.ret = OkUnit
              /\ devices' = Append(devices, last'.dev)
              /\ UNCHANGED <<sys_mem, owner, irq_log, min_free_irq, free_irqs,
                             mmio_region, min_free_base, sys_res>>]_vars

\* A device attached with a region and a filled descriptor was registered a
\* second time through attach_dynamic_device: it is in devices twice, and
\* the address space still holds the one region.
C13_Witness ==
    /\ last.op = "attach_dynamic_device" /\ last.dev = "res"
    /\ devices = <<"res", "res">>
    /\ Cardinality(sys_mem) = 1
    /\ sys_res["res"] # SysResDefault

\* C14 as stated: a set_irq that hands a number to a device with an
\* interrupt handle has registered that handle with the acceleration layer
\* under the number before the cursor advanced.
C14_RegisteredBeforeAdvance ==
    [][(/\ last'.op \in {"set_irq", "set_sys_resource"}
        /\ last'.dev \in HandleDevs
        /\ min_free_irq' = min_free_irq + 1)
           => <<interrupt_evt(last'.dev)[1], min_free_irq>> \in irqfds']_vars

\* C15 as stated: once a set_sys_resource call on a device has succeeded
\* (its descriptor no longer is the default one), no later call changes the
\* device's region_base, region_size or irq.
C15_DescriptorWrittenOnce ==
    [][\A d \in Devs :
          (HasSysRes(d) /\ sys_res[d] # SysResDefault) => sys_res'[d] = sys_res[d]]_vars

\* C16: devices only grows at its end. A successful attach_device or
\* attach_dynamic_device call appends its device; a failed attach and every
\* set_irq / set_sys_resource call leave the sequence as it was. So every
\* earlier value is a prefix of every later one and the sequence lists the
\* devices of the successful attach calls in call order.
C16_DevicesAppendOnly ==
    [][LET attached ==
               \/ /\ last'.op = "attach_device"
                  /\ \E r \in Ranges : call_attach_device(last'.dev, r[1], r[2])
               \/ /\ last'.op = "attach_dynamic_device"
                  /\ call_attach_dynamic_device(last'.dev)
       IN  devices' = IF attached /\ last'.ret.ok
                      THEN Append(devices, last'.dev)
                      ELSE devices]_vars

\* Two different devices are registered in call order, the first through
\* attach_device and the second through attach_dynamic_device, and an
\* interrupt allocation after them left the sequence alone.
C16_Witness ==
    /\ last.op = "set_sys_resource" /\ last.ret.ok
    /\ devices = <<"res", "evt">>
    /\ owner[0] = "res" /\ Cardinality(sys_mem) = 1
    /\ min_free_irq > lo

\* The non-negative numbers set_irq has handed out so far.
Granted == {irq_log[i].val : i \in {k \in 1..Len(irq_log) : irq_log[k].ok}}

\* C18: every non-negative number a set_irq / set_sys_resource call obtains
\* lies in [lo, hi] and was never handed out before, to this device or to
\* another; the numbers handed out so far are pairwise different.
C18_NoReuse ==
    /\ [](\A i \in 1..Len(irq_log), j \in 1..Len(irq_log) :
              (irq_log[i].ok /\ irq_log[j].ok)
                  => /\ irq_log[i].val \in lo..hi
                     /\ (i # j => irq_log[i].val # irq_log[j].val))
    /\ [][LET r == set_irq(last'.dev, min_free_irq, free_irqs).ret
              called ==
                  \/ last'.op = "set_irq" /\ call_set_irq(last'.dev)
                  \/ /\ last'.op = "set_sys_resource"
                     /\ \E z \in ResRanges :
                            call_set_sys_resource(last'.dev, z[1], z[2])
          IN  (called /\ r.ok /\ r.val >= 0)
                  => /\ r.val \in lo..hi
                     /\ r.val \notin Granted
                     /\ Granted' = Granted \cup {r.val}]_vars

\* Three numbers were handed out to the two devices with a handle, so one
\* device was served twice, the last time through set_sys_resource.
C18_Witness ==
    /\ last.op = "set_sys_resource" /\ last.dev = "evt_res" /\ last.ret.ok
    /\ Len(irq_log) = 3 /\ Granted = {lo, lo + 1, lo + 2}
    /\ sys_res["evt_res"].irq = hi

\* C19: a set_sys_resource call made when min_free_irq > hi fails with the
\* exhaustion error, and leaves every resource descriptor (that of the
\* calling device, set before or still the default, included) and
\* min_free_irq unchanged.
C19_ExhaustedKeepsDescriptor ==
    [][(last'.op = "set_sys_resource" /\ min_free_irq > hi)
           => \A r \in ResRanges :
                  call_set_sys_resource(last'.dev, r[1], r[2])
                      => /\ last'.ret = Exhausted
                         /\ UNCHANGED <<sys_res, min_free_irq>>]_vars

\* A device whose descriptor had been filled in called set_sys_resource
\* again after the numbers ran out: the call failed and the descriptor
\* still holds the number it was given first.
C19_Witness ==
    /\ last.op = "set_sys_resource" /\ last.dev = "evt_res" /\ last.ret = Exhausted
    /\ lo <= hi /\ min_free_irq = hi + 1
    /\ sys_res["evt_res"] = [region_base |-> 0, region_size |-> 1, irq |-> lo]
    /\ sys_res["res"] = SysResDefault

\* -------------------------------------------------------- running machine
\* vCPU threads dispatch accesses while devices are attached, on a bus built
\* for the range [IRQ_BASE, IRQ_BASE + 1].
IRQ_BASE == 1

RunInit == Constructed(<<IRQ_BASE, IRQ_BASE + 1>>, <<MemSize - 1, MemSize>>)

RunNext ==
    \/ \E d \in AttachDevs, r \in Ranges : call_attach_device(d, r[1], r[2])
    \/ \E d \in AttachDevs : call_set_irq(d)
    \/ \E t \in Threads, r \in sys_mem, k \in Kinds, o \in Bases :
           region_access(t, r, k, o, t)
    \/ \E t \in Threads : lock(t)
    \/ \E t \in Threads : dev_call(t)
    \/ \E t \in Threads, b \in BOOLEAN : dev_return(t, b)
    \/ \E t \in Threads : unlock(t)

RunSpec == RunInit /\ [][RunNext]_vars

\* Concurrent dispatch to distinct devices: a thread starts an access only
\* to a device no other thread is dispatching to. Threads that can run are
\* scheduled eventually, and device methods return.
region_access_distinct(t, r, kind, offset, data) ==
    /\ \A u \in Threads \ {t} :
           pc[u] \in {"idle", "done"} \/ req[u].closure.cloned_dev # r.ops[kind].cloned_dev
    /\ region_access(t, r, kind, offset, data)

FairNext ==
    \/ \E d \in AttachDevs, r \in Ranges : call_attach_device(d, r[1], r[2])
    \/ \E t \in Threads, r \in sys_mem, k \in Kinds, o \in Bases :
           region_access_distinct(t, r, k, o, t)
    \/ \E t \in Threads : lock(t)
    \/ \E t \in Threads : dev_call(t)
    \/ \E t \in Threads, b \in BOOLEAN : dev_return(t, b)
    \/ \E t \in Threads : unlock(t)

Fairness ==
    \A t \in Threads :
        /\ WF_vars(lock(t))
        /\ WF_vars(dev_call(t))
        /\ WF_vars(\E b \in BOOLEAN : dev_return(t, b))
        /\ WF_vars(unlock(t))

FairSpec == RunInit /\ [][FairNext]_vars /\ Fairness

\* ==================================================================
\* Properties of the region closures (checked under RunSpec, FairSpec)
\* ==================================================================
Target(t) == req[t].closure.cloned_dev
Holding(t) == pc[t] \in {"locked", "in_dev", "returned"}

\* The one device call a dispatch with the arguments of req[t] has to make.
ExpectedCall(t) ==
    [dev |-> owner[req[t].addr], method |-> req[t].kind, data |-> req[t].data,
     base |-> req[t].addr, offset |-> req[t].offset]

\* C7: a read (write) dispatched through the closures built for device D
\* makes exactly one call, to D's own read (write), with the same buffer,
\* base and offset, and returns exactly the boolean D returned.
C7_DispatchFaithful ==
    \A t \in Threads :
        /\ pc[t] \in {"closure", "locked"} => seen[t] = <<>>
        /\ pc[t] \in {"in_dev", "returned", "done"} => seen[t] = <<ExpectedCall(t)>>
        /\ pc[t] = "done" => result[t] = accepted[t]

\* A read of the region at base 1 that the device refused was reported as
\* refused while the other thread was inside another device.
C7_Witness ==
    \E t \in Threads, u \in Threads :
        /\ pc[t] = "done" /\ req[t].kind = "read" /\ req[t].addr = 1
        /\ accepted[t] = Some(FALSE) /\ result[t] = Some(FALSE)
        /\ pc[u] = "in_dev" /\ Target(u) # Target(t)

\* C8: at most one thread is inside a given device's read or write, and a
\* device's mutex is held by a thread exactly from the lock before the
\* method is entered until the method has returned; it is free otherwise.
C8_Serialized ==
    /\ \A t \in Threads, u \in Threads :
           (t # u /\ pc[t] = "in_dev" /\ pc[u] = "in_dev")
               => seen[t][1].dev # seen[u][1].dev
    /\ \A d \in Devs, t \in Threads :
           (mutex[MutexOf(d)] = t) <=> (Holding(t) /\ Target(t) = d)
    /\ \A d \in Devs : mutex[MutexOf(d)] \in Threads \cup {Free}

\* One thread is inside a device while the other waits for the same device.
C8_Witness ==
    \E t \in Threads, u \in Threads :
        /\ pc[t] = "in_dev" /\ pc[u] = "closure"
        /\ Target(t) = Target(u)

\* C9: with two threads dispatching to distinct devices, every dispatch
\* completes, a dispatch never finds its device's mutex taken by the
\* dispatch to the other device, and the steps of one dispatch leave the
\* arguments, the device call and the result of the other untouched.
C9_DistinctDevicesLive ==
    /\ \A t \in Threads : (pc[t] = "closure") ~> (pc[t] = "done")
    /\ [](\A t \in Threads : pc[t] = "closure" => mutex[MutexOf(Target(t))] = Free)
    /\ [][\A t \in Threads :
             pc'[t] = pc[t] => UNCHANGED <<req[t], seen[t], accepted[t], result[t]>>]_vars

\* Both threads are inside device methods at once, on different devices.
C9_Witness ==
    \E t \in Threads, u \in Threads :
        /\ pc[t] = "in_dev" /\ pc[u] = "in_dev"
        /\ Target(t) # Target(u)

\* C17: no step of a read or write dispatch changes min_free_irq,
\* min_free_base, free_irqs, mmio_region or devices, whatever construction
\* calls and other dispatches it is interleaved with; and min_free_base
\* equals mmio_region.0 in every reachable state.
C17_DispatchLeavesAllocator ==
    /\ [][(\E t \in Threads : pc'[t] # pc[t]) => UNCHANGED busVars]_vars
    /\ [](min_free_base = mmio_region[1])

\* A dispatch completed and another is inside a device on a bus that holds
\* two devices and has handed out an interrupt number.
C17_Witness ==
    \E t \in Threads, u \in Threads :
        /\ pc[t] = "done" /\ pc[u] = "in_dev"
        /\ Len(devices) = 2 /\ min_free_irq > IRQ_BASE
        /\ min_free_base = MemSize - 1
====
